---- MODULE Spec2Model ----
(***************************************************************************)
(* Model of the streaming fan-out part of the indexer API:                 *)
(*   - the message-socket gateway (src/websocket/mod.rs, store.rs):        *)
(*     join / ping / subscribe handlers, the subscription registry, the    *)
(*     snapshot task spawned by an accepted subscribe;                     *)
(*   - the pool event listener task of main (src/main.rs): it reads        *)
(*     pool_inserted notifications, runs the enrichment query and emits    *)
(*     `new-pair`.                                                         *)
(* The socket library is modelled by what the handlers rely on: a socket   *)
(* emit appends to the outgoing messages of a connected socket and is      *)
(* discarded for a closed one; an emit on the io handle goes to every      *)
(* socket connected to the default namespace; a closed socket leaves all   *)
(* its rooms. The two stores are the environment: a query answers Ok or    *)
(* Err.                                                                    *)
(***************************************************************************)
EXTENDS Integers, Sequences, FiniteSets, TLC

\* ---------------------------------------------------------------- bounds
\* subscribe messages a connection sends
MaxSubs == 2
\* ping messages a connection sends
MaxPings == 1
\* pool_inserted notifications the upstream publishes
MaxNotifs == 2
\* hours the clock advances
MaxTicks == 1
\* calls made on the PoolManager
MaxCalls == 4

\* rows returned by one batch enrichment query
MaxRows == 3
\* how far a filter's max lies from the limit of its field
MaxOver == 1
\* update_pulse_v2 batches broadcast to one socket
MaxBatches == 2

\* ------------------------------------------------------ program constants
\* hours of the recency window of the NewPairs pulse table
RecencyHours == 24

\* PoolManager: hours of the cutoff of update_pools
CutoffHours == 24
\* PoolManager.batch_size
batch_size == 100
\* PoolManager.flush_interval, seconds
flush_interval == 1
\* validate_age_filter, validate_hundred_filter, validate_max_amount_filter:
\* the limit each passes to validate_range_filter
age_max == 1440

hundred == 100

max_amount == 1000000000

\* socket ids
Conns == {"s1", "s2"}

VARIABLES
    conn,           \* socket id -> "idle" | "connected" | "closed"
    rooms,          \* socket id -> set of room names the socket is in
    SUBSCRIPTIONS,  \* keys of the DashMap<String, bool> (values are all true)
    CLICKHOUSE,     \* OnceCell<ClickhouseService>: "unset" | "set"
    running,        \* socket id -> number of snapshot tasks spawned and not finished
    failed,         \* socket id -> number of snapshot tasks whose pulse query answered Err
    outbox,         \* socket id -> sequence of events emitted to the socket
    nSub,           \* socket id -> number of update_pulse_v2 subscribe messages handled
    stream,         \* notifications of channel pool_inserted not yet read
    nNotif,         \* number of notifications published so far
    listener,       \* pool event listener task: [pc, db_pool]
    pools,          \* rows of the analytical store's pools table
    announced,      \* pool addresses for which emit("new-pair") has been called
    now,            \* clock, hours since the service started
    asked,          \* socket id -> room names the client has sent in a `join`
    pm_pools,       \* PoolManager.pools: sequence of known pools
    buffer,         \* PoolManager.buffer: sequence of pool addresses
    elapsed,        \* PoolManager.last_flush.elapsed(), seconds, counted up to flush_interval
    ret,            \* Option returned by the last verify_and_add_pool: None or Some(batch)
    acc,            \* pool address -> marks taken into the buffer since the last drain
    batchMarks,     \* pool address -> marks that went into the last batch drained
    pmCalls,        \* number of PoolManager calls so far
    request,        \* Option: the arguments of the function call under study
    response        \* Option: the value that call returned

vars == <<conn, rooms, SUBSCRIPTIONS, CLICKHOUSE, running, failed, outbox, nSub,
          stream, nNotif, listener, pools, announced, now, asked,
          pm_pools, buffer, elapsed, ret, acc, batchMarks, pmCalls,
          request, response>>

callVars == <<request, response>>

pmVars == <<pm_pools, buffer, elapsed, ret, acc, batchMarks, pmCalls>>

\* --------------------------------------------------------------- events
SubscriptionResponse == [ev |-> "subscriptionResponse"]
AlreadySubscribed == [ev |-> "error", data |-> "Already subscribed"]
SnapshotFailed == [ev |-> "error", data |-> "snapshot failed"]
Pong == [ev |-> "pong"]
Snapshot(content) == [ev |-> "update_pulse_v2", isSnapshot |-> TRUE, content |-> content]
NewPair(p) == [ev |-> "new-pair", pairAddress |-> p.pool_address,
               protocol |-> p.factory, created_at |-> p.created_at]

\* ------------------------------------------------------ inputs (bounded)
\* payload of a client `join` event
JoinPayloads == {"null", "NewPair", "UpdatePulse"}
\* data of a client `message` event
Messages ==
    {[method |-> "ping", subscription |-> "absent"],
     [method |-> "subscribe", subscription |-> "absent"],
     [method |-> "subscribe", subscription |-> "update_pulse_v2"],
     [method |-> "subscribe", subscription |-> "other"],
     [method |-> "other", subscription |-> "update_pulse_v2"]}
\* payloads of pool_inserted notifications
Notifications ==
    {[json_ok |-> TRUE, hex_ok |-> TRUE, pool_address |-> "P1", factory |-> "PumpFun",
      created_at |-> -1],
     [json_ok |-> TRUE, hex_ok |-> TRUE, pool_address |-> "P2", factory |-> "Unknown",
      created_at |-> -1],
     [json_ok |-> TRUE, hex_ok |-> TRUE, pool_address |-> "P3", factory |-> "PumpFun",
      created_at |-> -(RecencyHours + 1)],
     [json_ok |-> TRUE, hex_ok |-> FALSE, pool_address |-> "P4", factory |-> "PumpFun",
      created_at |-> -1],
     [json_ok |-> FALSE, hex_ok |-> FALSE, pool_address |-> "P5", factory |-> "PumpFun",
      created_at |-> -1]}

NoPool == [pool_address |-> "none", factory |-> "none", created_at |-> 0]

\* ------------------------------------------------------- socket library
\* socket.emit: delivered to a connected socket, discarded for a closed one
emit(ob, c, e) == IF conn[c] = "connected" THEN [ob EXCEPT ![c] = Append(@, e)] ELSE ob

emit_all(ob, c, es) == IF conn[c] = "connected" THEN [ob EXCEPT ![c] = @ \o es] ELSE ob

\* io.emit: every socket connected to the default namespace
io_emit_targets == {c \in Conns : conn[c] = "connected"}

Count(s, e) == Cardinality({i \in 1..Len(s) : s[i] = e})

IsSnapshot(e) == e.ev = "update_pulse_v2" /\ e.isSnapshot

IsNewPair(e) == e.ev = "new-pair"

\* -------------------------------------------------------------- gateway
\* enum Room with #[serde(untagged)]: unit variants of an untagged enum are
\* read from a unit (null) value only, the first variant that matches wins
\* and the rename attributes play no part; any string is a decode failure
DeserializeRoom(payload) == IF payload = "null" THEN "NewPair" ELSE "Err"

as_str(room) == IF room = "NewPair" THEN "new-pair" ELSE "update-pulse"

\* rooms joined by the join handler for a decoded Room
join_rooms(room) == IF room = "NewPair" THEN {as_str(room)} ELSE {}

InitBase ==
    /\ conn = [c \in Conns |-> "idle"]
    /\ rooms = [c \in Conns |-> {}]
    /\ SUBSCRIPTIONS = {}
    /\ CLICKHOUSE = "unset"
    /\ running = [c \in Conns |-> 0]
    /\ failed = [c \in Conns |-> 0]
    /\ outbox = [c \in Conns |-> << >>]
    /\ nSub = [c \in Conns |-> 0]
    /\ stream = << >>
    /\ nNotif = 0
    /\ listener = [pc |-> "recv", db_pool |-> NoPool]
    /\ pools = {}
    /\ announced = {}
    /\ now = 0
    /\ asked = [c \in Conns |-> {}]

\* pools the PoolManager calls are made with
PMPools ==
    {[pool_address |-> "A1", created_at |-> -1],
     [pool_address |-> "A2", created_at |-> -(CutoffHours + 1)],
     [pool_address |-> "A3", created_at |-> -CutoffHours]}

PMAddrs == {p.pool_address : p \in PMPools}

Range(s) == {s[i] : i \in 1..Len(s)}

\* Option<T>: None is the empty sequence, Some(x) the one-element sequence
None == << >>

Some(x) == <<x>>

\* PoolManager::new(pools)
PoolManager_new(ps) ==
    /\ pm_pools = ps
    /\ buffer = << >>
    /\ elapsed = 0
    /\ ret = None
    /\ acc = [a \in PMAddrs |-> 0]
    /\ batchMarks = [a \in PMAddrs |-> 0]
    /\ pmCalls = 0

NoCall == request = None /\ response = None

Init == InitBase /\ PoolManager_new(<< >>) /\ NoCall

gatewayVars == <<conn, rooms, SUBSCRIPTIONS, CLICKHOUSE, running, failed, outbox, nSub>>
ingestVars == <<stream, nNotif, listener, pools, announced, asked>>

\* a client connects: on_connect registers the handlers
on_connect(c) ==
    /\ conn[c] = "idle"
    /\ conn' = [conn EXCEPT ![c] = "connected"]
    /\ UNCHANGED <<rooms, SUBSCRIPTIONS, CLICKHOUSE, running, failed, outbox, nSub,
                   ingestVars, now>>
    /\ UNCHANGED pmVars
    /\ UNCHANGED callVars

\* a client goes away: the socket leaves its rooms; no handler is registered
\* for the disconnect, the registry is not touched
disconnect(c) ==
    /\ conn[c] = "connected"
    /\ conn' = [conn EXCEPT ![c] = "closed"]
    /\ rooms' = [rooms EXCEPT ![c] = {}]
    /\ UNCHANGED <<SUBSCRIPTIONS, CLICKHOUSE, running, failed, outbox, nSub,
                   ingestVars, now>>
    /\ UNCHANGED pmVars
    /\ UNCHANGED callVars

\* store::set_clickhouse_service: OnceCell::set keeps the first value
set_clickhouse_service ==
    /\ CLICKHOUSE = "unset"
    /\ CLICKHOUSE' = "set"
    /\ UNCHANGED <<conn, rooms, SUBSCRIPTIONS, running, failed, outbox, nSub,
                   ingestVars, now>>
    /\ UNCHANGED pmVars
    /\ UNCHANGED callVars

\* the `join` handler; a payload that does not decode does not reach it
on_join(c, payload) ==
    /\ conn[c] = "connected"
    /\ LET room == DeserializeRoom(payload)
       IN rooms' = IF room = "Err" THEN rooms
                   ELSE [rooms EXCEPT ![c] = @ \cup join_rooms(room)]
    /\ asked' = [asked EXCEPT ![c] = @ \cup ({payload} \cap {"NewPair", "UpdatePulse"})]
    /\ UNCHANGED <<conn, SUBSCRIPTIONS, CLICKHOUSE, running, failed, outbox, nSub,
                   stream, nNotif, listener, pools, announced, now>>
    /\ UNCHANGED pmVars
    /\ UNCHANGED callVars

\* dedupe test of the subscribe handler: subs().insert(id, true).is_some()
exists(id) == id \in SUBSCRIPTIONS

\* mutant: the `return` after the error emit is missing
subscribe_emits_fallthrough(ex) ==
    IF ex THEN <<AlreadySubscribed, SubscriptionResponse>> ELSE <<SubscriptionResponse>>

\* events the subscribe handler emits to the socket
subscribe_emits(ex) == IF ex THEN <<AlreadySubscribed>> ELSE <<SubscriptionResponse>>

\* mutant: the join of room update_pulse_v2 is left out
subscribe_joins_none(ex) == {}

\* rooms the subscribe handler joins
subscribe_joins(ex) == IF ex THEN {} ELSE {"update_pulse_v2"}

\* mutant: the snapshot is spawned for a duplicate subscribe too
subscribe_spawns_always(ex) == IF CLICKHOUSE = "set" THEN 1 ELSE 0

\* snapshot tasks the subscribe handler spawns
subscribe_spawns(ex) == IF ex THEN 0 ELSE IF CLICKHOUSE = "set" THEN 1 ELSE 0

\* the `message` handler
on_message(c, data) ==
    /\ conn[c] = "connected"
    /\ data.method = "ping" => Count(outbox[c], Pong) < MaxPings
    /\ (data.method = "subscribe" /\ data.subscription = "update_pulse_v2") => nSub[c] < MaxSubs
    /\ IF data.method = "ping"
       THEN /\ outbox' = emit(outbox, c, Pong)
            /\ UNCHANGED <<rooms, SUBSCRIPTIONS, running, nSub>>
       ELSE IF data.method = "subscribe" /\ data.subscription = "update_pulse_v2"
       THEN LET ex == exists(c)
            IN /\ SUBSCRIPTIONS' = SUBSCRIPTIONS \cup {c}
               /\ rooms' = [rooms EXCEPT ![c] = @ \cup subscribe_joins(ex)]
               /\ outbox' = emit_all(outbox, c, subscribe_emits(ex))
               /\ running' = [running EXCEPT ![c] = @ + subscribe_spawns(ex)]
               /\ nSub' = [nSub EXCEPT ![c] = @ + 1]
       ELSE UNCHANGED <<rooms, SUBSCRIPTIONS, running, outbox, nSub>>
    /\ UNCHANGED <<conn, CLICKHOUSE, failed, ingestVars, now>>
    /\ UNCHANGED pmVars
    /\ UNCHANGED callVars

\* rows the pulse query returns for the snapshot's filter: table NewPairs,
\* factories pump_fun only, age 0..1440 minutes, LIMIT 10; the other ranges
\* of the filter are over columns the model does not carry
PulseNewPairs ==
    {p.pool_address : p \in {q \in pools : /\ q.created_at >= now - RecencyHours
                                           /\ q.created_at <= now
                                           /\ q.factory = "PumpFun"}}

\* mutant: a failed query is answered with an empty snapshot
snapshot_event_default(res, content) ==
    IF res = "Ok" THEN Snapshot(content) ELSE Snapshot({})

\* event the snapshot task emits for the result of the pulse query
snapshot_event(res, content) == IF res = "Ok" THEN Snapshot(content) ELSE SnapshotFailed

\* the snapshot task: pulse query, then one emit on the socket's clone
snapshot_task(c, res) ==
    /\ running[c] > 0
    /\ running' = [running EXCEPT ![c] = @ - 1]
    /\ failed' = [failed EXCEPT ![c] = IF res = "Err" THEN @ + 1 ELSE @]
    /\ outbox' = emit(outbox, c, snapshot_event(res, PulseNewPairs))
    /\ UNCHANGED <<conn, rooms, SUBSCRIPTIONS, CLICKHOUSE, nSub, ingestVars, now>>
    /\ UNCHANGED pmVars
    /\ UNCHANGED callVars

\* the upstream indexer writes a pool row and publishes pool_inserted
pool_inserted(n) ==
    /\ nNotif < MaxNotifs
    /\ nNotif' = nNotif + 1
    /\ stream' = Append(stream, n)
    /\ pools' = IF n.json_ok /\ n.hex_ok
                THEN pools \cup {[pool_address |-> n.pool_address, factory |-> n.factory,
                                  created_at |-> n.created_at]}
                ELSE pools
    /\ UNCHANGED <<gatewayVars, listener, announced, now, asked>>
    /\ UNCHANGED pmVars
    /\ UNCHANGED callVars

\* listener task, first half of the loop body: read one notification,
\* parse the JSON payload (a failure is logged and the loop continues),
\* hex::decode(..).unwrap() the keys (a failure panics the task)
listener_recv ==
    /\ listener.pc = "recv"
    /\ stream # << >>
    /\ stream' = Tail(stream)
    /\ LET n == Head(stream)
       IN listener' = IF ~n.json_ok THEN listener
                      ELSE IF ~n.hex_ok THEN [pc |-> "dead", db_pool |-> NoPool]
                      ELSE [pc |-> "query",
                            db_pool |-> [pool_address |-> n.pool_address,
                                         factory |-> n.factory,
                                         created_at |-> n.created_at]]
    /\ UNCHANGED <<gatewayVars, nNotif, pools, announced, now, asked>>
    /\ UNCHANGED pmVars
    /\ UNCHANGED callVars

\* listener task, second half: the enrichment query answers; .unwrap() panics
\* the task on Err, otherwise io.emit("new-pair", &pulse_data)
listener_query(res) ==
    /\ listener.pc = "query"
    /\ IF res = "Err"
       THEN /\ listener' = [pc |-> "dead", db_pool |-> NoPool]
            /\ UNCHANGED <<outbox, announced>>
       ELSE /\ listener' = [pc |-> "recv", db_pool |-> NoPool]
            /\ outbox' = [c \in Conns |->
                             IF c \in io_emit_targets
                             THEN Append(outbox[c], NewPair(listener.db_pool))
                             ELSE outbox[c]]
            /\ announced' = announced \cup {listener.db_pool.pool_address}
    /\ UNCHANGED <<conn, rooms, SUBSCRIPTIONS, CLICKHOUSE, running, failed, nSub,
                   stream, nNotif, pools, now, asked>>
    /\ UNCHANGED pmVars
    /\ UNCHANGED callVars

\* listener task: stream.try_next() yields Err on a transport error; the
\* `while let Ok(Some(..))` pattern does not match and the loop, and with it
\* the task, ends
bus_error ==
    /\ listener.pc = "recv"
    /\ listener' = [pc |-> "ended", db_pool |-> NoPool]
    /\ UNCHANGED <<gatewayVars, stream, nNotif, pools, announced, now, asked>>
    /\ UNCHANGED pmVars
    /\ UNCHANGED callVars

\* the clock advances
Tick ==
    /\ now < MaxTicks
    /\ now' = now + 1
    /\ UNCHANGED <<gatewayVars, ingestVars>>
    /\ UNCHANGED pmVars
    /\ UNCHANGED callVars

NextBaseActions ==
    \/ \E c \in Conns : on_connect(c)
    \/ \E c \in Conns : disconnect(c)
    \/ set_clickhouse_service
    \/ \E c \in Conns, payload \in JoinPayloads : on_join(c, payload)
    \/ \E c \in Conns, data \in Messages : on_message(c, data)
    \/ \E c \in Conns, res \in {"Ok", "Err"} : snapshot_task(c, res)
    \/ \E n \in Notifications : pool_inserted(n)
    \/ listener_recv
    \/ \E res \in {"Ok", "Err"} : listener_query(res)
    \/ bus_error
    \/ Tick


\* the gateway alone: clients, the registry and the snapshot tasks
NextGateway ==
    \/ \E c \in Conns : on_connect(c)
    \/ \E c \in Conns : disconnect(c)
    \/ set_clickhouse_service
    \/ \E c \in Conns, data \in Messages : on_message(c, data)
    \/ \E c \in Conns, res \in {"Ok", "Err"} : snapshot_task(c, res)

SpecGateway == Init /\ [][NextGateway]_vars

\* the pool path: the upstream, the listener task and the clients' rooms
NextIngest ==
    \/ \E c \in Conns : on_connect(c)
    \/ \E c \in Conns : disconnect(c)
    \/ \E c \in Conns, payload \in JoinPayloads : on_join(c, payload)
    \/ \E n \in Notifications : pool_inserted(n)
    \/ listener_recv
    \/ \E res \in {"Ok", "Err"} : listener_query(res)
    \/ bus_error
    \/ Tick

SpecIngest == Init /\ [][NextIngest]_vars

\* the snapshot beside the pool path: subscribers, snapshot tasks, the
\* upstream and the listener task
NextPulse ==
    \/ \E c \in Conns : on_connect(c)
    \/ set_clickhouse_service
    \/ \E c \in Conns, data \in {m \in Messages : m.method = "subscribe"} :
          on_message(c, data)
    \/ \E c \in Conns, res \in {"Ok", "Err"} : snapshot_task(c, res)
    \/ \E n \in Notifications : pool_inserted(n)
    \/ listener_recv
    \/ \E res \in {"Ok", "Err"} : listener_query(res)

SpecPulse == Init /\ [][NextPulse]_vars

\* ---------------------------------------------------------- PoolManager
baseVars == <<gatewayVars, ingestVars, callVars>>

\* PoolManager::update_pools
update_pools(pool) ==
    /\ pmCalls < MaxCalls
    /\ pmCalls' = pmCalls + 1
    /\ LET cutoff == now - CutoffHours
       IN pm_pools' = Append(SelectSeq(pm_pools, LAMBDA p : p.created_at < cutoff), pool)
    /\ UNCHANGED <<buffer, elapsed, ret, acc, batchMarks, baseVars, now>>

\* mutant: the test whether the address is already buffered is left out
in_buffer_never(buf, a) == FALSE

\* self.buffer.contains(&pool_address)
in_buffer(buf, a) == a \in Range(buf)

\* self.pools.iter().find(|p| p.pool_address == pool_address) is Some
is_known(a) == \E i \in 1..Len(pm_pools) : pm_pools[i].pool_address = a

\* PoolManager::should_flush
should_flush(buf) ==
    \/ Len(buf) >= batch_size
    \/ (buf # << >> /\ elapsed >= flush_interval)

\* mutant: the buffer is copied before the last push and cleared after it
take_stale(buf) == SubSeq(buf, 1, Len(buf) - 1)

\* the batch of flush_and_process: std::mem::take(&mut self.buffer)
take(buf) == buf

\* PoolManager::verify_and_add_pool, with should_flush and flush_and_process
verify_and_add_pool(a) ==
    /\ pmCalls < MaxCalls
    /\ pmCalls' = pmCalls + 1
    /\ IF in_buffer(buffer, a)
       THEN /\ ret' = None
            /\ acc' = [acc EXCEPT ![a] = @ + 1]
            /\ UNCHANGED <<buffer, elapsed, batchMarks>>
       ELSE LET buf == IF is_known(a) THEN buffer ELSE Append(buffer, a)
                marks == IF is_known(a) THEN acc ELSE [acc EXCEPT ![a] = @ + 1]
            IN IF should_flush(buf) /\ buf # << >>
               THEN /\ ret' = Some(take(buf))
                    /\ buffer' = << >>
                    /\ elapsed' = 0
                    /\ batchMarks' = marks
                    /\ acc' = [x \in PMAddrs |-> 0]
               ELSE /\ ret' = None
                    /\ buffer' = buf
                    /\ acc' = marks
                    /\ UNCHANGED <<elapsed, batchMarks>>
    /\ UNCHANGED <<pm_pools, baseVars, now>>

\* time passes on the monotonic clock
PMWait ==
    /\ elapsed < flush_interval
    /\ elapsed' = elapsed + 1
    /\ UNCHANGED <<pm_pools, buffer, ret, acc, batchMarks, pmCalls, baseVars, now>>

InitPM == InitBase /\ NoCall /\ \E ps \in {<< >>} \cup {<<p>> : p \in PMPools} : PoolManager_new(ps)

NextPM ==
    \/ \E pool \in PMPools : update_pools(pool)
    \/ \E a \in PMAddrs : verify_and_add_pool(a)
    \/ PMWait
    \/ Tick

SpecPM == InitPM /\ [][NextPM]_vars

\* the PoolManager with time passing: nothing but its callers runs a drain
SpecPMFair == SpecPM /\ WF_vars(PMWait) /\ WF_vars(Tick)

\* ---------------------------------------------------------- i128 arithmetic
\* An integer is [neg, mag]: a sign and a magnitude, the magnitude a sequence
\* of limbs in 0..Base-1, least significant first, without leading zero limbs.
Base == 1000

RECURSIVE Strip(_)
Strip(m) ==
    IF m = << >> THEN m
    ELSE IF m[Len(m)] = 0 THEN Strip(SubSeq(m, 1, Len(m) - 1))
    ELSE m

Limb(m, i) == IF i <= Len(m) THEN m[i] ELSE 0

RECURSIVE AddFrom(_, _, _, _)
AddFrom(a, b, i, carry) ==
    IF i > Len(a) /\ i > Len(b)
    THEN IF carry = 0 THEN << >> ELSE <<carry>>
    ELSE LET sum == Limb(a, i) + Limb(b, i) + carry
         IN <<sum % Base>> \o AddFrom(a, b, i + 1, sum \div Base)

MagAdd(a, b) == AddFrom(a, b, 1, 0)

\* a - b for a >= b
RECURSIVE SubFrom(_, _, _, _)
SubFrom(a, b, i, borrow) ==
    IF i > Len(a) THEN << >>
    ELSE LET d == Limb(a, i) - Limb(b, i) - borrow
         IN IF d < 0 THEN <<d + Base>> \o SubFrom(a, b, i + 1, 1)
            ELSE <<d>> \o SubFrom(a, b, i + 1, 0)

MagSub(a, b) == Strip(SubFrom(a, b, 1, 0))

\* -1, 0, 1 as a is below, equal to, above b
RECURSIVE CmpFrom(_, _, _)
CmpFrom(a, b, i) ==
    IF i = 0 THEN 0
    ELSE IF a[i] < b[i] THEN -1
    ELSE IF a[i] > b[i] THEN 1
    ELSE CmpFrom(a, b, i - 1)

MagCmp(a, b) ==
    IF Len(a) < Len(b) THEN -1
    ELSE IF Len(a) > Len(b) THEN 1
    ELSE CmpFrom(a, b, Len(a))

RECURSIVE MulLimbFrom(_, _, _, _)
MulLimbFrom(a, k, i, carry) ==
    IF i > Len(a)
    THEN IF carry = 0 THEN << >> ELSE <<carry>>
    ELSE LET prod == a[i] * k + carry
         IN <<prod % Base>> \o MulLimbFrom(a, k, i + 1, prod \div Base)

MagMulLimb(a, k) == Strip(MulLimbFrom(a, k, 1, 0))

MagShift(a, n) == IF a = << >> THEN a ELSE [i \in 1..n |-> 0] \o a

RECURSIVE MulFrom(_, _, _)
MulFrom(a, b, i) ==
    IF i > Len(b) THEN << >>
    ELSE MagAdd(MagShift(MagMulLimb(a, b[i]), i - 1), MulFrom(a, b, i + 1))

MagMul(a, b) == Strip(MulFrom(a, b, 1))

\* the largest d in lo..hi with b * d <= r
RECURSIVE QuotLimb(_, _, _, _)
QuotLimb(r, b, lo, hi) ==
    IF lo = hi THEN lo
    ELSE LET mid == (lo + hi + 1) \div 2
         IN IF MagCmp(MagMulLimb(b, mid), r) <= 0
            THEN QuotLimb(r, b, mid, hi)
            ELSE QuotLimb(r, b, lo, mid - 1)

\* long division, b # 0: the quotient limbs from the most significant down
\* (the test on d and rest has them computed before the next limb is taken)
RECURSIVE DivFrom(_, _, _, _, _)
DivFrom(a, b, i, rem, quot) ==
    IF i = 0 THEN Strip(quot)
    ELSE LET r == Strip(<<a[i]>> \o rem)
             d == QuotLimb(r, b, 0, Base - 1)
             rest == MagSub(r, MagMulLimb(b, d))
         IN IF d >= 0 /\ Len(rest) >= 0
            THEN DivFrom(a, b, i - 1, rest, <<d>> \o quot)
            ELSE << >>

MagDiv(a, b) == DivFrom(a, b, Len(a), << >>, << >>)

Int128(neg, mag) == [neg |-> neg /\ mag # << >>, mag |-> mag]

RECURSIVE MagOf(_)
MagOf(n) == IF n = 0 THEN << >> ELSE <<n % Base>> \o MagOf(n \div Base)

\* a small integer as an i128
I(n) == IF n < 0 THEN Int128(TRUE, MagOf(-n)) ELSE Int128(FALSE, MagOf(n))

\* 10^k: Base is 10^3
MagPow10(k) == [i \in 1..(k \div 3) |-> 0] \o <<10 ^ (k % 3)>>

\* m * 10^k
E(m, k) == Int128(m < 0, MagMul(I(m).mag, MagPow10(k)))

Less(x, y) ==
    IF x.neg # y.neg THEN x.neg
    ELSE IF x.neg THEN MagCmp(x.mag, y.mag) > 0
    ELSE MagCmp(x.mag, y.mag) < 0

Neg(x) == Int128(~x.neg, x.mag)

Add(x, y) ==
    IF x.neg = y.neg THEN Int128(x.neg, MagAdd(x.mag, y.mag))
    ELSE IF MagCmp(x.mag, y.mag) >= 0 THEN Int128(x.neg, MagSub(x.mag, y.mag))
    ELSE Int128(y.neg, MagSub(y.mag, x.mag))

Mul(x, y) == Int128(x.neg # y.neg, MagMul(x.mag, y.mag))

\* `/` of Rust: the quotient truncated toward zero, y # 0
Div(x, y) == Int128(x.neg # y.neg, MagDiv(x.mag, y.mag))

\* i128::MAX = 2^127 - 1 and i128::MIN = -2^127
I128_MAX == Int128(FALSE, <<727, 105, 884, 715, 303, 687, 731, 231, 469, 460, 183, 141, 170>>)

I128_MIN == Int128(TRUE, <<728, 105, 884, 715, 303, 687, 731, 231, 469, 460, 183, 141, 170>>)

saturate(x) ==
    IF Less(I128_MAX, x) THEN I128_MAX
    ELSE IF Less(x, I128_MIN) THEN I128_MIN
    ELSE x

saturating_add(x, y) == saturate(Add(x, y))

saturating_sub(x, y) == saturate(Add(x, Neg(y)))

saturating_mul(x, y) == saturate(Mul(x, y))

\* ------------------------------------------------------- utils.rs, Decimal18
SCALE == E(1, 18)

\* Decimal18::from_bits: the raw i128 is the value times 10^18
from_bits(raw) == raw

into_bits(x) == x

\* mutant: the zero test never succeeds
is_zero_never(x) == FALSE

\* x == Decimal18::from_bits(0), x.into_bits() == 0
is_zero(x) == into_bits(x) = I(0)

round_div_i128(n, d) ==
    IF ~n.neg
    THEN Div(saturating_add(n, Div(d, I(2))), d)
    ELSE Div(saturating_sub(n, Div(d, I(2))), d)

d_mul(a, b) ==
    LET prod == saturating_mul(into_bits(a), into_bits(b))
    IN from_bits(round_div_i128(prod, SCALE))

d_div(a, b) ==
    IF is_zero(b) THEN from_bits(I(0))
    ELSE LET num == saturating_mul(into_bits(a), SCALE)
         IN from_bits(round_div_i128(num, into_bits(b)))

calculate_percentage(amount, scale_factor, token_supply) ==
    IF is_zero(scale_factor) \/ is_zero(token_supply)
    THEN from_bits(I(0))
    ELSE d_mul(d_div(amount, scale_factor), d_div(from_bits(I(100)), token_supply))

\* ----------------------------------------------- DbService batch enrichment

\* what decoding one row of the batch query does
RowKinds == {"ok", "null_scale_factor", "null_token_supply", "decode_error"}

RECURSIVE SeqsUpTo(_, _)
SeqsUpTo(S, n) ==
    IF n = 0 THEN {<< >>}
    ELSE LET shorter == SeqsUpTo(S, n - 1)
         IN shorter \cup {Append(q, x) : q \in {r \in shorter : Len(r) = n - 1}, x \in S}

Ok(v) == [ok |-> TRUE, value |-> v]

Err == [ok |-> FALSE, value |-> << >>]

\* the loop over the fetched rows: `?` on a decode error returns from the
\* function, a null scale_factor or token_supply skips the row
RECURSIVE decode_rows(_, _, _)
decode_rows(rows, i, data) ==
    IF i > Len(rows) THEN Ok(data)
    ELSE IF rows[i] = "decode_error" THEN Err
    ELSE IF rows[i] \in {"null_scale_factor", "null_token_supply"}
         THEN decode_rows(rows, i + 1, data)
    ELSE decode_rows(rows, i + 1, Append(data, i))

\* one query for the whole batch; rows are identified by their position
get_batch_pool_data ==
    /\ request # None
    /\ response = None
    /\ response' = Some(IF request[1].query_ok
                        THEN decode_rows(request[1].rows, 1, << >>)
                        ELSE Err)
    /\ UNCHANGED <<request, gatewayVars, ingestVars, pmVars, now>>

InitBatch ==
    /\ InitBase
    /\ PoolManager_new(<< >>)
    /\ request \in {Some([query_ok |-> q, rows |-> rs]) :
                        q \in BOOLEAN, rs \in SeqsUpTo(RowKinds, MaxRows)}
    /\ response = None

NextBatch == get_batch_pool_data

SpecBatch == InitBatch /\ [][NextBatch]_vars

\* ------------------------------------------------ pulse holder percentages
\* raw holder amounts in base units (i64 columns of the pulse query)
RawAmounts == {I(0), I(1), E(150, 12), E(5, 14), E(1, 15), E(1, 18)}

\* token decimals: scale_factor is pow(10, decimals)
Decimals == {0, 6, 9}

\* token_supply as the bits of a Decimal18: 0, 1, 10^6 and 10^9 tokens
Supplies == {I(0), E(1, 18), E(1, 24), E(1, 27)}

\* pulse, per returned row: top10_holders_percent of the row
pulse_percentage ==
    /\ request # None
    /\ response = None
    /\ response' = Some(calculate_percentage(from_bits(request[1].top10_amount_raw),
                                             from_bits(request[1].scale_factor),
                                             from_bits(request[1].token_supply)))
    /\ UNCHANGED <<request, gatewayVars, ingestVars, pmVars, now>>

InitPercent ==
    /\ InitBase
    /\ PoolManager_new(<< >>)
    /\ request \in {Some([top10_amount_raw |-> a, scale_factor |-> E(1, d), token_supply |-> t]) :
                        a \in RawAmounts, d \in Decimals, t \in Supplies}
    /\ response = None

NextPercent == pulse_percentage

SpecPercent == InitPercent /\ [][NextPercent]_vars

\* ------------------------------------------------------ filter validation
\* the range fields of Filters and the validator each is deserialized with
AgeFields == {"age"}

HundredFields == {"top10_holders", "dev_holding", "snipers_holding", "bonding_curve"}

MaxAmountFields == {"holders", "liquidity", "volume", "market_cap", "txns",
                    "num_buys", "num_sells", "num_migrations"}

RangeFields == AgeFields \cup HundredFields \cup MaxAmountFields

\* mutant: a max equal to the limit is rejected too
exceeds_or_reaches(max, max_limit) == max >= max_limit

exceeds(max, max_limit) == max > max_limit

\* filter is [min, max], each an Option
validate_range_filter(filter, max_limit) ==
    LET filled == IF filter.max = None
                  THEN [filter EXCEPT !.max = Some(max_limit)]
                  ELSE filter
    IN IF exceeds(filled.max[1], max_limit)
       THEN [ok |-> FALSE, value |-> filter]
       ELSE [ok |-> TRUE, value |-> filled]

validate_age_filter(filter) == validate_range_filter(filter, age_max)

validate_hundred_filter(filter) == validate_range_filter(filter, hundred)

validate_max_amount_filter(filter) == validate_range_filter(filter, max_amount)

max_limit_of(field) ==
    IF field \in AgeFields THEN age_max
    ELSE IF field \in HundredFields THEN hundred
    ELSE max_amount

\* serde deserializes one range field of Filters with its validator
deserialize_range_field ==
    /\ request # None
    /\ response = None
    /\ LET filter == [min |-> request[1].min, max |-> request[1].max]
       IN response' = Some(IF request[1].field \in AgeFields
                           THEN validate_age_filter(filter)
                           ELSE IF request[1].field \in HundredFields
                           THEN validate_hundred_filter(filter)
                           ELSE validate_max_amount_filter(filter))
    /\ UNCHANGED <<request, gatewayVars, ingestVars, pmVars, now>>

\* a range field as a client may send it
RangeRequests(f) ==
    {Some([field |-> f, min |-> lo, max |-> hi]) :
        lo \in {None, Some(0)},
        hi \in {None, Some(0)} \cup {Some(max_limit_of(f) + d) : d \in -MaxOver..MaxOver}}

InitFilter ==
    /\ InitBase
    /\ PoolManager_new(<< >>)
    /\ request \in UNION {RangeRequests(f) : f \in RangeFields}
    /\ response = None

NextFilter == deserialize_range_field

SpecFilter == InitFilter /\ [][NextFilter]_vars

\* ------------------------------------------------------ pulse table query
PulseTable == {"NewPairs", "FinalStretch", "Migrated"}

\* a pool row as the joins of the query see it; a social field is TRUE when
\* it is a non-empty string; the row is within the age range and of a
\* selected factory
PulseRows ==
    {[num_holders |-> h, twitter |-> tw, website |-> we, telegram |-> te, name |-> n,
      curve_percentage |-> cp, pre_factory |-> pf] :
        h \in {0, 5}, tw \in BOOLEAN, we \in BOOLEAN, te \in BOOLEAN,
        n \in {"cat", "dog", "fox"}, cp \in {10, 60}, pf \in BOOLEAN}

\* the user filters of a request
PulseFilters ==
    {[holders |-> [min |-> lo, max |-> Some(max_amount)], twitter |-> tw,
      at_least_one_social |-> any, search_keywords |-> sk, exclude_keywords |-> ek] :
        lo \in {None, Some(1)}, tw \in BOOLEAN, any \in BOOLEAN,
        sk \in {<< >>, <<"cat">>}, ek \in {<< >>, <<"dog">>}}

\* LOWER(t.name) LIKE LOWER('%keyword%')
like(name, keyword) == name = keyword

\* the WHERE of the all_pools CTE of each table
table_predicate(table, row) ==
    IF table = "NewPairs" THEN row.curve_percentage < 50
    ELSE IF table = "FinalStretch" THEN row.curve_percentage < 100
    ELSE row.pre_factory

\* where_conditions: each pushed string is a sequence of terms joined by OR
\* inside the string; only the at_least_one_social string has more than one
cond(terms) == IF terms = << >> THEN << >> ELSE <<terms>>

where_conditions(filters) ==
    (IF filters.holders.min # None
     THEN cond(<<[kind |-> "holders_min", arg |-> filters.holders.min[1]]>>) ELSE << >>)
    \o (IF filters.holders.max # None
        THEN cond(<<[kind |-> "holders_max", arg |-> filters.holders.max[1]]>>) ELSE << >>)
    \o (IF filters.twitter THEN cond(<<[kind |-> "twitter", arg |-> 0]>>) ELSE << >>)
    \o (IF filters.at_least_one_social
        THEN cond(<<[kind |-> "twitter", arg |-> 0], [kind |-> "website", arg |-> 0],
                    [kind |-> "telegram", arg |-> 0]>>)
        ELSE << >>)
    \o (IF filters.search_keywords # << >>
        THEN cond(<<[kind |-> "search", arg |-> filters.search_keywords]>>) ELSE << >>)
    \o (IF filters.exclude_keywords # << >>
        THEN cond(<<[kind |-> "exclude", arg |-> filters.exclude_keywords]>>) ELSE << >>)

term_holds(term, row) ==
    IF term.kind = "holders_min" THEN row.num_holders >= term.arg
    ELSE IF term.kind = "holders_max" THEN row.num_holders <= term.arg
    ELSE IF term.kind = "twitter" THEN row.twitter
    ELSE IF term.kind = "website" THEN row.website
    ELSE IF term.kind = "telegram" THEN row.telegram
    ELSE IF term.kind = "search"
         THEN \E i \in 1..Len(term.arg) : like(row.name, term.arg[i])
    ELSE \A i \in 1..Len(term.arg) : ~like(row.name, term.arg[i])

\* where_conditions.join(" AND "): the terms in order, each with the
\* connective written before it
RECURSIVE join_and(_, _)
join_and(conds, i) ==
    IF i > Len(conds) THEN << >>
    ELSE [j \in 1..Len(conds[i]) |->
            [term |-> conds[i][j], op |-> IF j = 1 THEN "AND" ELSE "OR"]]
         \o join_and(conds, i + 1)

\* SQL evaluates AND before OR: the text is a disjunction of the runs of
\* terms between two ORs
eval_where(items, row) ==
    LET starts == {1} \cup {i \in 1..Len(items) : items[i].op = "OR"}
        run(s) == {i \in s..Len(items) : \A k \in (s + 1)..i : items[k].op = "AND"}
    IN \E s \in starts : \A i \in run(s) : term_holds(items[i].term, row)

\* whether the query of the table returns the row
query_returns(table, filters, row) ==
    /\ table_predicate(table, row)
    /\ LET conds == where_conditions(filters)
       IN IF table = "NewPairs" \/ conds = << >>
          THEN TRUE
          ELSE eval_where(join_and(conds, 1), row)

\* pulse: the query of the requested table against a pool row
pulse_query ==
    /\ request # None
    /\ response = None
    /\ response' = Some(query_returns(request[1].table, request[1].filters, request[1].row))
    /\ UNCHANGED <<request, gatewayVars, ingestVars, pmVars, now>>

InitQuery ==
    /\ InitBase
    /\ PoolManager_new(<< >>)
    /\ request \in {Some([table |-> t, filters |-> f, row |-> r]) :
                        t \in PulseTable, f \in PulseFilters, r \in PulseRows}
    /\ response = None

NextQuery == pulse_query

SpecQuery == InitQuery /\ [][NextQuery]_vars

\* ------------------------------------------------------- HTTP route keys
\* handlers that parse a pool, token or wallet key from the request
KeyRoutes == {"search_pools", "get_candlestick", "get_pair_info", "get_top_traders",
              "get_holders", "get_trades", "get_last_transaction", "get_pool_report",
              "get_token_info", "get_trader_details"}

\* what the store answers once the key is parsed
StoreAnswers == {"row", "none", "err"}

\* Pubkey::from_str(..).map_err(|_| status)?, or Pubkey::from_str_const(..),
\* which panics on a string that is not a base58 key
parse_key(route) ==
    IF route \in {"get_pair_info", "get_top_traders", "get_token_info"} THEN "400"
    ELSE IF route \in {"get_candlestick", "get_holders", "get_pool_report",
                       "get_trader_details"} THEN "500"
    ELSE "panic"

\* the answer of the handler after a parsed key
answer(route, store) ==
    IF store = "err" THEN "500"
    ELSE IF store = "none" /\ route \in {"get_last_transaction", "get_pool_report"} THEN "404"
    ELSE "200"

\* one request to a route: key_ok is whether the key is a base58 public key
handle_route ==
    /\ request # None
    /\ response = None
    /\ response' = Some(IF request[1].key_ok
                        THEN answer(request[1].route, request[1].store)
                        ELSE parse_key(request[1].route))
    /\ UNCHANGED <<request, gatewayVars, ingestVars, pmVars, now>>

InitRoute ==
    /\ InitBase
    /\ PoolManager_new(<< >>)
    /\ request \in {Some([route |-> r, key_ok |-> k, store |-> a]) :
                        r \in KeyRoutes, k \in BOOLEAN, a \in StoreAnswers}
    /\ response = None

NextRoute == handle_route

SpecRoute == InitRoute /\ [][NextRoute]_vars

\* ------------------------------------------------------ model conversions
\* Pubkey::from_str / Pubkey::try_from(Vec<u8>) of a well-formed key, and
\* to_string / to_bytes().to_vec() back
Pubkey(wire) == [pubkey |-> wire]

key_to_wire(key) == key.pubkey

\* db.slot as u64 and slot as i64: two's complement of width 64
TWO_63 == Int128(FALSE, <<808, 775, 854, 36, 372, 223, 9>>)

TWO_64 == Add(TWO_63, TWO_63)

as_u64(x) == IF x.neg THEN Add(x, TWO_64) ELSE x

as_i64(x) == IF Less(x, TWO_63) THEN x ELSE Add(x, Neg(TWO_64))

\* Decimal as [mantissa, scale]; Decimal::to_u64 drops the fraction,
\* Decimal::from(u64) has scale 0
to_u64(d) == d.mantissa \div (10 ^ d.scale)

Decimal_from(n) == [mantissa |-> n, scale |-> 0]

SwapType_from_str(str) ==
    IF str \in {"BUY", "SELL", "ADD", "REMOVE"} THEN str ELSE "UNKNOWN"

WireKeys == {"K1", "K2"}

WireSlots == {I(0), I(7), I(-1)}

DBSwaps ==
    {[creator |-> k, swap_type |-> t, slot |-> sl, created_at |-> at] :
        k \in WireKeys, t \in {"BUY", "SELL", "ADD", "REMOVE", "UNKNOWN"},
        sl \in WireSlots, at \in {-1, 0}}

DBPools ==
    {[pool_address |-> k, pre_factory |-> pf, curve_percentage |-> cp, slot |-> sl] :
        k \in WireKeys, pf \in {"", "PumpFun"}, cp \in {None, Some(10)}, sl \in WireSlots}

DBTokenAccounts ==
    {[owner |-> k, amount |-> Decimal_from(a), delegate |-> d, state |-> st, is_native |-> n] :
        k \in WireKeys, a \in {0, 5}, d \in {None, Some("K1")},
        st \in {"Uninitialized", "Initialized", "Frozen"},
        n \in {None, Some(Decimal_from(1))}}

\* TryFrom<DBSwap> for Swap: the Swap has no created_at
Swap_try_from(db) ==
    [creator |-> Pubkey(db.creator), swap_type |-> SwapType_from_str(db.swap_type),
     slot |-> as_u64(db.slot)]

\* From<Swap> for DBSwap: created_at is Utc::now()
DBSwap_from(swap) ==
    [creator |-> key_to_wire(swap.creator), swap_type |-> swap.swap_type,
     slot |-> as_i64(swap.slot), created_at |-> now]

Pool_try_from(db) ==
    [pool_address |-> Pubkey(db.pool_address), pre_factory |-> Some(db.pre_factory),
     curve_percentage |-> db.curve_percentage, slot |-> as_u64(db.slot)]

\* pre_factory.unwrap_or_default()
DBPool_from(pool) ==
    [pool_address |-> key_to_wire(pool.pool_address),
     pre_factory |-> IF pool.pre_factory = None THEN "" ELSE pool.pre_factory[1],
     curve_percentage |-> pool.curve_percentage, slot |-> as_i64(pool.slot)]

Account_try_from(db) ==
    [owner |-> Pubkey(db.owner), amount |-> to_u64(db.amount),
     delegate |-> IF db.delegate = None THEN None ELSE Some(Pubkey(db.delegate[1])),
     state |-> db.state,
     is_native |-> IF db.is_native = None THEN None ELSE Some(to_u64(db.is_native[1]))]

DBTokenAccount_from(account) ==
    [owner |-> key_to_wire(account.owner), amount |-> Decimal_from(account.amount),
     delegate |-> IF account.delegate = None THEN None
                  ELSE Some(key_to_wire(account.delegate[1])),
     state |-> account.state,
     is_native |-> IF account.is_native = None THEN None
                   ELSE Some(Decimal_from(account.is_native[1]))]

\* a wire row is converted to the in-memory form and back
round_trip ==
    /\ request # None
    /\ response = None
    /\ response' = Some(IF request[1].model = "Swap"
                        THEN DBSwap_from(Swap_try_from(request[1].row))
                        ELSE IF request[1].model = "Pool"
                        THEN DBPool_from(Pool_try_from(request[1].row))
                        ELSE DBTokenAccount_from(Account_try_from(request[1].row)))
    /\ UNCHANGED <<request, gatewayVars, ingestVars, pmVars, now>>

InitConvert ==
    /\ InitBase
    /\ PoolManager_new(<< >>)
    /\ request \in {Some([model |-> "Swap", row |-> r]) : r \in DBSwaps}
                   \cup {Some([model |-> "Pool", row |-> r]) : r \in DBPools}
                   \cup {Some([model |-> "Account", row |-> r]) : r \in DBTokenAccounts}
    /\ response = None

NextConvert ==
    \/ round_trip
    \/ Tick

SpecConvert == InitConvert /\ [][NextConvert]_vars

\* ------------------------------------------------------- per-pool enricher
Factories == {"PumpFun", "PumpSwap", "Raydium", ""}

\* the payload of a notification, parsed as a DBPool, and what the store
\* would answer to the enrichment query
EnrichInputs ==
    {[factory |-> f, pool_address |-> k, curve_percentage |-> cp, created_at |-> at,
      query |-> q] :
        f \in Factories, k \in WireKeys, cp \in {None, Some(10)},
        at \in {-1, -(RecencyHours + 1)}, q \in {"Ok", "Err"}}

factory_rejected(factory) == factory # "PumpFun"

\* on_new_pool_event: [ok, queried, value]
enrich(in) ==
    IF factory_rejected(in.factory)
    THEN [ok |-> FALSE, queried |-> FALSE, value |-> << >>]
    ELSE IF in.query = "Err"
    THEN [ok |-> FALSE, queried |-> TRUE, value |-> << >>]
    ELSE [ok |-> TRUE, queried |-> TRUE,
          value |-> <<[pair_address |-> in.pool_address, protocol |-> in.factory,
                       bonding_curve_percent |-> IF in.curve_percentage = None THEN 0
                                                 ELSE in.curve_percentage[1],
                       created_at |-> in.created_at]>>]

on_new_pool_event ==
    /\ request # None
    /\ response = None
    /\ response' = Some(enrich(request[1]))
    /\ UNCHANGED <<request, gatewayVars, ingestVars, pmVars, now>>

InitEnrich ==
    /\ InitBase
    /\ PoolManager_new(<< >>)
    /\ request \in {Some(in) : in \in EnrichInputs}
    /\ response = None

NextEnrich == on_new_pool_event

SpecEnrich == InitEnrich /\ [][NextEnrich]_vars

\* --------------------------------------------------- Decimal18 operations
\* `/` on i128 panics on a zero divisor and on i128::MIN / -1
div_panics(n, d) == d = I(0) \/ (n = I128_MIN /\ d = I(-1))

round_div_i128_panics(n, d) ==
    IF ~n.neg
    THEN div_panics(saturating_add(n, Div(d, I(2))), d)
    ELSE div_panics(saturating_sub(n, Div(d, I(2))), d)

d_add(a, b) == from_bits(saturating_add(into_bits(a), into_bits(b)))

d_sub(a, b) == from_bits(saturating_sub(into_bits(a), into_bits(b)))

d_mul_panics(a, b) ==
    round_div_i128_panics(saturating_mul(into_bits(a), into_bits(b)), SCALE)

d_div_panics(a, b) ==
    /\ ~is_zero(b)
    /\ round_div_i128_panics(saturating_mul(into_bits(a), SCALE), into_bits(b))

calculate_percentage_panics(amount, scale_factor, token_supply) ==
    /\ ~is_zero(scale_factor)
    /\ ~is_zero(token_supply)
    /\ \/ d_div_panics(amount, scale_factor)
       \/ d_div_panics(from_bits(I(100)), token_supply)

\* raw bits the operations are applied to
OpValues == {I128_MIN, E(-3, 18), I(-1), I(0), I(1), I(7), E(1, 18), E(15, 17), I128_MAX}

BinaryOps == {"d_add", "d_sub", "d_mul", "d_div"}

Returned(v) == [panic |-> FALSE, value |-> v]

Panicked == [panic |-> TRUE, value |-> I(0)]

apply_op(op, a, b, c) ==
    IF op = "d_add" THEN Returned(d_add(a, b))
    ELSE IF op = "d_sub" THEN Returned(d_sub(a, b))
    ELSE IF op = "d_mul"
         THEN IF d_mul_panics(a, b) THEN Panicked ELSE Returned(d_mul(a, b))
    ELSE IF op = "d_div"
         THEN IF d_div_panics(a, b) THEN Panicked ELSE Returned(d_div(a, b))
    ELSE IF calculate_percentage_panics(a, b, c) THEN Panicked
    ELSE Returned(calculate_percentage(a, b, c))

\* one call of a Decimal18 operation of utils.rs
decimal_op ==
    /\ request # None
    /\ response = None
    /\ response' = Some(apply_op(request[1].op, request[1].a, request[1].b, request[1].c))
    /\ UNCHANGED <<request, gatewayVars, ingestVars, pmVars, now>>

InitArith ==
    /\ InitBase
    /\ PoolManager_new(<< >>)
    /\ request \in {Some([op |-> op, a |-> a, b |-> b, c |-> I(0)]) :
                        op \in BinaryOps, a \in OpValues, b \in OpValues}
                   \cup {Some([op |-> "calculate_percentage", a |-> a, b |-> b, c |-> c]) :
                            a \in OpValues, b \in {I(0), I(-1), E(1, 6)},
                            c \in {I(0), I(1), E(1, 27)}}
    /\ response = None

NextArith == decimal_op

SpecArith == InitArith /\ [][NextArith]_vars

\* ------------------------------------------------------- the whole program
\* ------------------------------------------- update_pulse_v2 room broadcast
\* a batch message of the coalescing batcher
Batch(content) == [ev |-> "update_pulse_v2", isSnapshot |-> FALSE, content |-> content]

IsBatch(e) == e.ev = "update_pulse_v2" /\ ~e.isSnapshot

batches(c) == Cardinality({i \in 1..Len(outbox[c]) : IsBatch(outbox[c][i])})

\* sockets a broadcast to a room reaches
room_members(room) == {c \in Conns : conn[c] = "connected" /\ room \in rooms[c]}

\* the batcher's tick: one update_pulse_v2 message with isSnapshot false to
\* the sockets of room update_pulse_v2
batch_broadcast ==
    /\ room_members("update_pulse_v2") # {}
    /\ \A c \in Conns : batches(c) < MaxBatches
    /\ outbox' = [c \in Conns |->
                    IF c \in room_members("update_pulse_v2")
                    THEN Append(outbox[c], Batch({p.pool_address : p \in pools}))
                    ELSE outbox[c]]
    /\ UNCHANGED <<conn, rooms, SUBSCRIPTIONS, CLICKHOUSE, running, failed, nSub,
                   ingestVars, now>>
    /\ UNCHANGED pmVars
    /\ UNCHANGED callVars

\* subscribers, their snapshot tasks and the batcher's broadcasts
NextSubscribe ==
    \/ \E c \in Conns : on_connect(c)
    \/ set_clickhouse_service
    \/ \E c \in Conns, data \in {m \in Messages : m.method = "subscribe"} :
          on_message(c, data)
    \/ \E c \in Conns, res \in {"Ok", "Err"} : snapshot_task(c, res)
    \/ batch_broadcast

SpecSubscribe == Init /\ [][NextSubscribe]_vars

Next ==
    \/ NextBaseActions
    \/ NextSubscribe
    \/ NextPM
    \/ NextBatch
    \/ NextPercent
    \/ NextFilter
    \/ NextQuery
    \/ NextRoute
    \/ NextConvert
    \/ NextEnrich
    \/ NextArith

Spec == Init /\ [][Next]_vars

\* ---------------------------------------------------------------- claims
Snapshots(c) == {i \in 1..Len(outbox[c]) : IsSnapshot(outbox[c][i])}

Gained(c) == Len(outbox'[c]) > Len(outbox[c])

\* C1: on every connection the first update_pulse_v2 subscribe is answered
\* with exactly one subscriptionResponse and every later one with exactly one
\* "Already subscribed" error and no further subscriptionResponse.
C1_FirstAckThenErrors ==
    \A c \in Conns :
        /\ Count(outbox[c], SubscriptionResponse) = IF nSub[c] >= 1 THEN 1 ELSE 0
        /\ Count(outbox[c], AlreadySubscribed) = IF nSub[c] >= 1 THEN nSub[c] - 1 ELSE 0

C1_Witness ==
    \E c \in Conns :
        /\ nSub[c] >= 2
        /\ Count(outbox[c], SubscriptionResponse) = 1
        /\ Count(outbox[c], AlreadySubscribed) = nSub[c] - 1

\* C2: a connection is sent at most one snapshot however often it subscribes:
\* a duplicate subscribe spawns no snapshot task and changes no room.
C2_AtMostOneSnapshot ==
    /\ [](\A c \in Conns : Cardinality(Snapshots(c)) + running[c] <= 1)
    /\ [][\A c \in Conns :
            (c \in SUBSCRIPTIONS /\ nSub'[c] > nSub[c])
                => (running'[c] = running[c] /\ rooms'[c] = rooms[c])]_vars

C2_Witness ==
    \E c \in Conns :
        /\ nSub[c] >= 2
        /\ Cardinality(Snapshots(c)) = 1
        /\ running[c] = 0

\* C3: once a connection is closed the subscription registry holds no entry
\* for its id.
C3_DisconnectClearsRegistry ==
    \A c \in Conns : conn[c] = "closed" => c \notin SUBSCRIPTIONS

\* C4: after a connection's first subscribe it is recorded and in room
\* update_pulse_v2, and a snapshot is emitted to it only after its
\* subscriptionResponse: every snapshot in its outgoing messages has the
\* subscriptionResponse before it, and so has every snapshot task still running.
C4_AckBeforeSnapshot ==
    \A c \in Conns :
        /\ nSub[c] >= 1 => c \in SUBSCRIPTIONS
        /\ (nSub[c] >= 1 /\ conn[c] = "connected") => "update_pulse_v2" \in rooms[c]
        /\ \A i \in Snapshots(c) :
              \E j \in 1..(i - 1) : outbox[c][j] = SubscriptionResponse
        /\ running[c] > 0 => Count(outbox[c], SubscriptionResponse) = 1

C4_Witness ==
    \E c \in Conns :
        /\ c \in SUBSCRIPTIONS
        /\ "update_pulse_v2" \in rooms[c]
        /\ \E i \in Snapshots(c) :
              \E j \in 1..(i - 1) : outbox[c][j] = SubscriptionResponse

\* C5: a connection whose snapshot query failed has received exactly one
\* "snapshot failed" error and no snapshot, is still recorded and still in
\* room update_pulse_v2, and its next subscribe is answered "Already
\* subscribed".
C5_SnapshotFailureKeepsSubscription ==
    /\ [](\A c \in Conns :
            (failed[c] > 0 /\ conn[c] = "connected")
                => /\ Count(outbox[c], SnapshotFailed) = 1
                   /\ Snapshots(c) = {}
                   /\ c \in SUBSCRIPTIONS
                   /\ "update_pulse_v2" \in rooms[c])
    /\ [][\A c \in Conns :
            (failed[c] > 0 /\ nSub'[c] > nSub[c])
                => outbox'[c] = Append(outbox[c], AlreadySubscribed)]_vars

C5_Witness ==
    \E c \in Conns :
        /\ failed[c] > 0
        /\ conn[c] = "connected"
        /\ Count(outbox[c], SnapshotFailed) = 1
        /\ nSub[c] >= 2
        /\ outbox[c][Len(outbox[c])] = AlreadySubscribed

\* room a join message names
RoomNamed(name) == IF name = "NewPair" THEN "new-pair" ELSE "update-pulse"

\* C6: a connection that has sent a join naming NewPair or UpdatePulse is a
\* member of the room the message names.
C6_JoinEntersNamedRoom ==
    \A c \in Conns :
        conn[c] = "connected" => \A name \in asked[c] : RoomNamed(name) \in rooms[c]

\* the step in which the listener task emits new-pair
BroadcastStep == listener.pc = "query" /\ listener'.pc = "recv"

\* C7: a new-pair event goes to exactly the members of room new-pair at the
\* time of the broadcast.
C7_NewPairToRoomMembersOnly ==
    [][\A c \in Conns :
          (Gained(c) /\ IsNewPair(outbox'[c][Len(outbox'[c])]))
              <=> (BroadcastStep /\ "new-pair" \in rooms[c])]_vars

\* C8: a pool-created notification whose created_at is older than now - 24h
\* is never broadcast as new-pair.
C8_OldPoolDropped ==
    [][BroadcastStep => listener.db_pool.created_at >= now - RecencyHours]_vars

\* factories the enricher is specified to accept
SupportedFactories == {"PumpFun", "PumpSwap"}

\* C9: a pool-created notification of an unsupported factory starts no
\* enrichment query and produces no new-pair event for any client.
C9_UnsupportedFactoryDropped ==
    /\ listener.pc = "query" => listener.db_pool.factory \in SupportedFactories
    /\ \A c \in Conns : \A i \in 1..Len(outbox[c]) :
          IsNewPair(outbox[c][i]) => outbox[c][i].protocol \in SupportedFactories

VerifyStep == pmCalls' # pmCalls /\ pm_pools' = pm_pools

\* a verify_and_add_pool call that returned a batch
DrainStep == VerifyStep /\ ret' # None

CreatedAt(a) == (CHOOSE p \in PMPools : p.pool_address = a).created_at

C12_MarkedEventuallyDrained ==
    \A a \in PMAddrs : (a \in Range(buffer)) ~> (a \notin Range(buffer))

C15_OldPoolNeverDirty ==
    /\ \A a \in Range(buffer) : CreatedAt(a) >= now - CutoffHours
    /\ ret # None => \A a \in Range(ret[1]) : CreatedAt(a) >= now - CutoffHours

\* C14: when the enrichment of one pool of a batch fails, the result still
\* has an entry for every pool of the batch whose enrichment succeeds.
C14_FailingPoolDoesNotPoisonBatch ==
    response # None =>
        \A i \in 1..Len(request[1].rows) :
            request[1].rows[i] = "ok"
                => response[1].ok /\ i \in Range(response[1].value)

\* C16: a failure while handling one pool notification leaves the listener
\* task running.
C16_ListenerSurvivesBadNotification == listener.pc # "dead"

\* C17: a transport error on the notification stream does not end the
\* listener loop: the listener reconnects and resumes.
C17_ListenerReconnects == listener.pc # "ended"

\* ((raw_amount / scale_factor) / supply) * 100 as the bits of a Decimal18,
\* zero on a zero denominator; supply is given as Decimal18 bits
percentage_scaled(raw_amount, scale_factor, supply) ==
    IF scale_factor = I(0) \/ supply = I(0) THEN I(0)
    ELSE round_div_i128(Mul(Mul(raw_amount, I(100)), E(1, 36)), Mul(scale_factor, supply))

\* decimals 6, supply 1,000,000,000, raw top-10 amount 150,000,000,000,000
S5 == [top10_amount_raw |-> E(150, 12), scale_factor |-> E(1, 6), token_supply |-> E(1, 27)]

\* C18: the holder percentage of a pulse record equals
\* ((raw_amount / scale_factor) / supply) * 100 in Q18 fixed point, and is
\* exactly 15 for the input S5.
C18_PercentageIsScaledRatio ==
    response # None =>
        /\ response[1] = from_bits(percentage_scaled(request[1].top10_amount_raw,
                                                     request[1].scale_factor,
                                                     request[1].token_supply))
        /\ request[1] = S5 => response[1] = from_bits(E(15, 18))

\* C19: a range filter whose max exceeds the limit of its field is rejected
\* and one whose max equals the limit is accepted unchanged; age max 1440 is
\* accepted and 1441 is rejected.
C19_MaxAboveCapRejected ==
    response # None =>
        LET f == request[1]
            r == response[1]
        IN /\ (f.max # None /\ f.max[1] > max_limit_of(f.field)) => ~r.ok
           /\ (f.max # None /\ f.max[1] = max_limit_of(f.field))
                 => r.ok /\ r.value = [min |-> f.min, max |-> f.max]
           /\ (f.field = "age" /\ f.max = Some(1440)) => r.ok
           /\ (f.field = "age" /\ f.max = Some(1441)) => ~r.ok

C19_Witness ==
    /\ request # None
    /\ response # None
    /\ request[1].field = "age"
    /\ request[1].max = Some(1441)
    /\ ~response[1].ok

\* the row satisfies every active user filter
satisfies_filters(filters, row) ==
    /\ filters.holders.min # None => row.num_holders >= filters.holders.min[1]
    /\ filters.holders.max # None => row.num_holders <= filters.holders.max[1]
    /\ filters.twitter => row.twitter
    /\ filters.at_least_one_social => (row.twitter \/ row.website \/ row.telegram)
    /\ filters.search_keywords # << >>
          => \E i \in 1..Len(filters.search_keywords) : like(row.name, filters.search_keywords[i])
    /\ \A i \in 1..Len(filters.exclude_keywords) : ~like(row.name, filters.exclude_keywords[i])

\* C20: in each of the three pulse tables a returned pool satisfies every
\* active user filter of the request.
C20_ReturnedPoolSatisfiesFilters ==
    (response # None /\ response[1])
        => satisfies_filters(request[1].filters, request[1].row)

\* C21: in FinalStretch and Migrated, when at_least_one_social is set, a
\* returned pool has a non-empty twitter, website or telegram and satisfies
\* every other active filter of the request.
C21_SocialAndOtherFilters ==
    (/\ response # None
     /\ response[1]
     /\ request[1].table \in {"FinalStretch", "Migrated"}
     /\ request[1].filters.at_least_one_social)
        => /\ request[1].row.twitter \/ request[1].row.website \/ request[1].row.telegram
           /\ satisfies_filters([request[1].filters EXCEPT !.at_least_one_social = FALSE],
                                request[1].row)

\* C22: a route answers 400 to a malformed key, never 500 and never by
\* aborting the request task.
C22_MalformedKeyIs400 ==
    (response # None /\ ~request[1].key_ok) => response[1] = "400"

\* C23: a well-formed wire row of Pool, Swap or Account converted to the
\* in-memory form and back equals the original in every field.
C23_WireRoundTrip ==
    response # None => response[1] = request[1].row

\* C24: the per-pool enricher answers for a PumpFun and for a PumpSwap pool
\* when the store query succeeds, and returns an error without querying the
\* store for every other factory.
C24_EnricherFactories ==
    response # None =>
        /\ (request[1].factory \in SupportedFactories /\ request[1].query = "Ok")
              => response[1].ok
        /\ request[1].factory \notin SupportedFactories
              => ~response[1].ok /\ ~response[1].queried

\* C25: calculate_percentage returns zero whenever scale_factor or supply is
\* zero, and d_div returns zero whenever the divisor's bits are zero, for
\* every value of the other arguments.
C25_ZeroDenominatorGivesZero ==
    response # None =>
        /\ (request[1].op = "calculate_percentage"
            /\ (request[1].b = I(0) \/ request[1].c = I(0)))
              => response[1] = Returned(I(0))
        /\ (request[1].op = "d_div" /\ request[1].b = I(0))
              => response[1] = Returned(I(0))

C25_Witness ==
    /\ request # None
    /\ response # None
    /\ request[1].op = "d_div"
    /\ request[1].a = I128_MIN
    /\ request[1].b = I(0)
    /\ response[1] = Returned(I(0))

Abs(x) == Int128(FALSE, x.mag)

\* the quotient n / d rounded to the nearest integer, a half away from zero
round_half_away(n, d) ==
    Int128(n.neg # d.neg,
           MagDiv(MagAdd(MagMulLimb(n.mag, 2), d.mag), MagMulLimb(d.mag, 2)))

in_i128(x) == ~Less(I128_MAX, x) /\ ~Less(x, I128_MIN)

\* the operands of the call are in range: no intermediate value saturates
no_saturation(op, a, b) ==
    LET n == IF op = "d_mul" THEN Mul(a, b) ELSE Mul(a, SCALE)
        d == IF op = "d_mul" THEN SCALE ELSE b
    IN /\ in_i128(n)
       /\ in_i128(Add(Abs(n), Abs(Div(d, I(2)))))
       /\ in_i128(Neg(Add(Abs(n), Abs(Div(d, I(2))))))

\* C26: with operands in range, d_mul and d_div return the exact quotient
\* rounded half away from zero, for every sign of the operands.
C26_RoundsHalfAwayFromZero ==
    (/\ response # None
     /\ request[1].op \in {"d_mul", "d_div"}
     /\ request[1].op = "d_div" => request[1].b # I(0)
     /\ no_saturation(request[1].op, request[1].a, request[1].b))
        => response[1] =
              Returned(IF request[1].op = "d_mul"
                       THEN round_half_away(Mul(request[1].a, request[1].b), SCALE)
                       ELSE round_half_away(Mul(request[1].a, SCALE), request[1].b))

\* C30: d_mul, d_add and d_sub return without a panic for every pair of
\* inputs, and d_div does for every nonzero divisor.
C30_NoPanic ==
    (/\ response # None
     /\ request[1].op \in BinaryOps
     /\ request[1].op = "d_div" => request[1].b # I(0))
        => ~response[1].panic

\* the pools update_pools kept: the list after the call without the pushed pool
kept_pools == SubSeq(pm_pools', 1, Len(pm_pools') - 1)

\* C29: after update_pools(pool) the new pool is in the list, every pool kept
\* in the list was created within the last 24 hours, and every pool created
\* within the last 24 hours is kept.
C29_UpdatePoolsKeepsRecent ==
    [][\A pool \in PMPools :
          update_pools(pool) =>
              /\ pool \in Range(pm_pools')
              /\ \A p \in Range(kept_pools) : p.created_at >= now - CutoffHours
              /\ \A p \in Range(pm_pools) :
                    p.created_at >= now - CutoffHours => p \in Range(kept_pools)]_vars

\* the gateway under the runtime's scheduling: a spawned snapshot task runs
SpecGatewayFair ==
    SpecGateway /\ \A c \in Conns : WF_vars(\E res \in {"Ok", "Err"} : snapshot_task(c, res))

\* number of answers to a subscribe on the socket: snapshots and snapshot errors
answers(c) ==
    Cardinality({i \in 1..Len(outbox[c]) :
                    IsSnapshot(outbox[c][i]) \/ outbox[c][i] = SnapshotFailed})

\* C28: an accepted first subscribe on a connection that stays connected is
\* eventually followed by exactly one snapshot or snapshot error, whether or
\* not an analytical-store service is registered.
C28_SubscribeEventuallyAnswered ==
    \A c \in Conns :
        (Count(outbox[c], SubscriptionResponse) > 0)
            ~> (conn[c] # "connected" \/ answers(c) = 1)

\* C27: a socket never has an update_pulse_v2 batch (isSnapshot false) in its
\* events before its snapshot (isSnapshot true), whatever the interleaving of
\* the subscribe handler, the snapshot task and the room broadcast.
C27_NoBatchBeforeSnapshot ==
    \A c \in Conns :
        \A i \in 1..Len(outbox[c]) :
            IsBatch(outbox[c][i]) => \E j \in 1..(i - 1) : IsSnapshot(outbox[c][j])
====
